---- MODULE Spec2Model ----
(***************************************************************************)
(* Model of run_files.py: the dependency map, Kahn's topological sort,     *)
(* the recursive prerequisite collection, the restricted order for one     *)
(* target, the grouping view and the two run modes with their runner.      *)
(***************************************************************************)
EXTENDS Integers, Sequences, FiniteSets, TLC

\* The universe of unit names the maps are drawn from.
Units == {"A", "B", "C"}

\* Longest depends_on list of one entry, and the total number of list items.
MaxDeps == 2
MaxEdges == 3

\* Number of invocations of the program in one behaviour.
MaxRuns == 2

VARIABLES
    dependencies,   \* the dict returned by load_dependencies, in insertion order
    mode,           \* which entry point was called
    target,         \* the target argument (run_single, collect)
    pc,             \* position in the program
    all_files,      \* topological_sort: the set of all units
    graph,          \* topological_sort: dep -> [dependents]
    in_degree,      \* topological_sort: unit -> remaining prerequisites
    queue,          \* topological_sort: the deque
    order,          \* topological_sort: the result list
    visited,        \* collect_all_prerequisites: the visited set
    stack,          \* collect_all_prerequisites: the pending dfs calls
    expanded,       \* collect_all_prerequisites: unit -> number of dfs calls for it
    requiredSet,    \* execution_order_for_target: required = prereqs | {target}
    plan,           \* the list the run loop iterates
    grouped,        \* the last result of group_by_dependency_count
    started,        \* units run_file was called for, in call order
    completed,      \* units whose run_file returned
    error,          \* the exception that ended the invocation
    errUnits,       \* the units the exception's message names
    calls,          \* functions entered so far in this invocation
    run,            \* number of the current invocation
    lastOrder       \* the order topological_sort returned in the previous invocation

vars == <<dependencies, mode, target, pc, all_files, graph, in_degree, queue,
          order, visited, stack, expanded, requiredSet, plan, grouped, started, completed, error,
          errUnits, calls, run, lastOrder>>

sortVars == <<all_files, graph, in_degree, queue, order>>
histVars == <<run, lastOrder>>

----------------------------------------------------------------------------
\* Helpers on sequences and on the dict

Range(s) == {s[i] : i \in 1..Len(s)}

SeqsUpTo(S, n) == UNION {[1..k -> S] : k \in 0..n}

\* Every enumeration of a finite set: the orders in which iterating it may go.
Enumerations(S) ==
    {f \in [1..Cardinality(S) -> S] : \A i, j \in 1..Cardinality(S) : i # j => f[i] # f[j]}

\* dependencies.keys(), in insertion order
Keys(d) == [i \in 1..Len(d) |-> d[i].name]

\* dependencies.get(f, [])
Get(d, f) ==
    IF \E i \in 1..Len(d) : d[i].name = f
    THEN d[CHOOSE i \in 1..Len(d) : d[i].name = f].deps
    ELSE <<>>

RECURSIVE SumLen(_)
SumLen(d) == IF d = <<>> THEN 0 ELSE Len(Head(d).deps) + SumLen(Tail(d))

\* The dicts load_dependencies can return: distinct keys in any insertion
\* order, each with a list of unit names (repetitions allowed).
DependencyMaps ==
    UNION {
        {d \in [1..k -> [name : Units, deps : SeqsUpTo(Units, MaxDeps)]] :
            /\ \A i, j \in 1..k : i # j => d[i].name # d[j].name
            /\ SumLen(d) <= MaxEdges}
        : k \in 0..Cardinality(Units)}

----------------------------------------------------------------------------
\* topological_sort

\* keys + deps
AllFiles(d) == Range(Keys(d)) \cup UNION {Range(d[i].deps) : i \in 1..Len(d)}

\* the inner loop over one entry's deps
RECURSIVE AddDepsReversed(_, _, _, _)
AddDepsReversed(file, deps, g, deg) ==
    IF deps = <<>> THEN <<g, deg>>
    ELSE LET dep == Head(deps)
         IN AddDepsReversed(file, Tail(deps),
                    [g EXCEPT ![file] = Append(@, dep)],
                    [deg EXCEPT ![dep] = @ + 1])

\* a repeated prerequisite counted once in the in-degree
RECURSIVE AddDepsDistinct(_, _, _, _)
AddDepsDistinct(file, deps, g, deg) ==
    IF deps = <<>> THEN <<g, deg>>
    ELSE LET dep == Head(deps)
         IN AddDepsDistinct(file, Tail(deps),
                    [g EXCEPT ![dep] = Append(@, file)],
                    IF dep \in Range(Tail(deps)) THEN deg
                    ELSE [deg EXCEPT ![file] = @ + 1])

RECURSIVE AddDeps(_, _, _, _)
AddDeps(file, deps, g, deg) ==
    IF deps = <<>> THEN <<g, deg>>
    ELSE LET dep == Head(deps)
         IN AddDeps(file, Tail(deps),
                    [g EXCEPT ![dep] = Append(@, file)],
                    [deg EXCEPT ![file] = @ + 1])

\* the loop over dependencies.items()
RECURSIVE BuildGraph(_, _, _)
BuildGraph(d, g, deg) ==
    IF d = <<>> THEN <<g, deg>>
    ELSE LET r == AddDeps(Head(d).name, Head(d).deps, g, deg)
         IN BuildGraph(Tail(d), r[1], r[2])

EmptyGraph == [u \in Units |-> <<>>]

\* the loop over graph[current]
RECURSIVE RelaxEager(_, _, _)
RelaxEager(ns, deg, q) ==
    IF ns = <<>> THEN <<deg, q>>
    ELSE LET n == Head(ns)
             deg2 == [deg EXCEPT ![n] = @ - 1]
         IN RelaxEager(Tail(ns), deg2, Append(q, n))

RECURSIVE Relax(_, _, _)
Relax(ns, deg, q) ==
    IF ns = <<>> THEN <<deg, q>>
    ELSE LET n == Head(ns)
             deg2 == [deg EXCEPT ![n] = @ - 1]
         IN Relax(Tail(ns), deg2, IF deg2[n] = 0 THEN Append(q, n) ELSE q)

\* line 74: the order misses a unit
HasCycleNever(ord, files) == Len(ord) > Cardinality(files)

HasCycleEmptyOnly(ord, files) == ord = <<>> /\ files # {}

HasCycle(ord, files) == Len(ord) # Cardinality(files)

\* lines 47-64: the state of topological_sort when its while loop is reached
\* (files and r are each bound to one value, computed once per step)
SortSetup ==
    \E files \in {AllFiles(dependencies)} :
    \E r \in {BuildGraph(dependencies, EmptyGraph, [f \in files |-> 0])} :
       /\ all_files' = files
       /\ graph' = r[1]
       /\ in_degree' = r[2]
       /\ \E q \in Enumerations({f \in files : r[2][f] = 0}) : queue' = q
       /\ order' = <<>>

----------------------------------------------------------------------------
\* group_by_dependency_count

RECURSIVE GroupLoopAtMostOne(_, _, _)
GroupLoopAtMostOne(fs, d, g) ==
    IF fs = <<>> THEN g
    ELSE LET f == Head(fs)
             deps == Get(d, f)
         IN GroupLoopAtMostOne(Tail(fs), d,
                IF Len(deps) <= 1 THEN [g EXCEPT ![1] = Append(@, f)]
                ELSE IF Len(deps) = 1 THEN [g EXCEPT ![2] = Append(@, f)]
                ELSE [g EXCEPT ![3] = Append(@, f)])

RECURSIVE GroupLoop(_, _, _)
GroupLoop(fs, d, g) ==
    IF fs = <<>> THEN g
    ELSE LET f == Head(fs)
             deps == Get(d, f)
         IN GroupLoop(Tail(fs), d,
                IF Len(deps) = 0 THEN [g EXCEPT ![1] = Append(@, f)]
                ELSE IF Len(deps) = 1 THEN [g EXCEPT ![2] = Append(@, f)]
                ELSE [g EXCEPT ![3] = Append(@, f)])

group_by_dependency_count(files_subset, d) ==
    GroupLoop(files_subset, d, <<(<<>>), (<<>>), (<<>>)>>)

----------------------------------------------------------------------------
\* execution_order_for_target

\* lines 105-107: the target is a key or is named in a dependency list
KnownTargetAlways(d, t) == t \in Units

KnownTargetKeysOnly(d, t) == t \in Range(Keys(d))

KnownTarget(d, t) == t \in AllFiles(d)

\* line 115
RestrictNothing(global_order, required) == global_order

\* the comprehension run over the set instead of the list
RestrictBySet(global_order, required) ==
    CHOOSE e \in Enumerations(required \cap Range(global_order)) : TRUE

Restrict(global_order, required) ==
    SelectSeq(global_order, LAMBDA f : f \in required)

----------------------------------------------------------------------------

NoGroups == <<(<<>>), (<<>>), (<<>>)>>

\* dfs was called for no unit yet
NoneExpanded == [u \in Units |-> 0]

Fresh ==
    /\ pc = "start"
    /\ all_files = {}
    /\ graph = EmptyGraph
    /\ in_degree = <<>>
    /\ queue = <<>>
    /\ order = <<>>
    /\ visited = {}
    /\ stack = <<>>
    /\ expanded = NoneExpanded
    /\ requiredSet = {}
    /\ plan = <<>>
    /\ grouped = NoGroups
    /\ started = <<>>
    /\ completed = <<>>
    /\ error = "none"
    /\ errUnits = {}
    /\ calls = {}

\* the state a new invocation starts in
Reset ==
    /\ pc' = "start"
    /\ all_files' = {}
    /\ graph' = EmptyGraph
    /\ in_degree' = <<>>
    /\ queue' = <<>>
    /\ order' = <<>>
    /\ visited' = {}
    /\ stack' = <<>>
    /\ expanded' = NoneExpanded
    /\ requiredSet' = {}
    /\ plan' = <<>>
    /\ grouped' = NoGroups
    /\ started' = <<>>
    /\ completed' = <<>>
    /\ error' = "none"
    /\ errUnits' = {}
    /\ calls' = {}

Init ==
    /\ dependencies \in DependencyMaps
    /\ mode \in {"run_all", "run_single", "collect"}
    /\ target \in Units
    /\ (mode = "run_all" => target = "A")
    /\ Fresh
    /\ run = 1
    /\ lastOrder = <<>>

\* run_all_files, lines 178-187: the grouped view, then topological_sort is entered
RunAllBegin ==
    /\ pc = "start" /\ mode = "run_all"
    /\ grouped' = group_by_dependency_count(Keys(dependencies), dependencies)
    /\ SortSetup
    /\ calls' = calls \cup {"group_by_dependency_count", "topological_sort"}
    /\ pc' = "kahn"
    /\ UNCHANGED <<dependencies, mode, target, visited, stack, expanded, requiredSet, plan, started,
                   completed, error, errUnits>>
    /\ UNCHANGED histVars

\* run_single_file_with_deps, lines 203-210, and execution_order_for_target, lines 105-111
RunSingleBegin ==
    /\ pc = "start" /\ mode = "run_single"
    /\ IF ~KnownTarget(dependencies, target)
       THEN /\ error' = "UnknownTarget"
            /\ errUnits' = {target}
            /\ pc' = "failed"
            /\ calls' = calls \cup {"execution_order_for_target"}
            /\ UNCHANGED sortVars
       ELSE /\ SortSetup
            /\ calls' = calls \cup {"execution_order_for_target", "topological_sort"}
            /\ pc' = "kahn"
            /\ UNCHANGED <<error, errUnits>>
    /\ UNCHANGED <<dependencies, mode, target, visited, stack, expanded, requiredSet, plan, grouped,
                   started, completed>>
    /\ UNCHANGED histVars

\* one iteration of the while loop, lines 65-72
KahnStep ==
    /\ pc = "kahn" /\ queue # <<>>
    /\ LET current == Head(queue)
           r == Relax(graph[current], in_degree, Tail(queue))
       IN /\ order' = Append(order, current)
          /\ in_degree' = r[1]
          /\ queue' = r[2]
    /\ UNCHANGED <<dependencies, mode, target, pc, all_files, graph, visited,
                   stack, expanded, requiredSet, plan, grouped, started, completed,
                   error, errUnits, calls>>
    /\ UNCHANGED histVars

\* lines 74-78, and what the caller does with the returned order:
\* run_all_files (lines 187-195) starts its run loop, execution_order_for_target
\* (line 112) calls collect_all_prerequisites
KahnExit ==
    /\ pc = "kahn" /\ queue = <<>>
    /\ IF HasCycle(order, all_files)
       THEN /\ error' = "Cycle"
            /\ errUnits' = {}
            /\ pc' = "failed"
            /\ UNCHANGED <<plan, visited, stack, expanded, calls>>
       ELSE IF mode = "run_all"
       THEN /\ plan' = order
            /\ pc' = "exec"
            /\ UNCHANGED <<error, errUnits, visited, stack, expanded, calls>>
       ELSE /\ visited' = {}
            /\ stack' = <<[file |-> target, i |-> 1]>>
            /\ expanded' = [NoneExpanded EXCEPT ![target] = 1]
            /\ calls' = calls \cup {"collect_all_prerequisites"}
            /\ pc' = "dfs"
            /\ UNCHANGED <<error, errUnits, plan>>
    /\ UNCHANGED <<dependencies, mode, target, requiredSet, grouped, started, completed>>
    /\ UNCHANGED sortVars
    /\ UNCHANGED histVars

\* a direct call collect_all_prerequisites(dependencies, target), lines 88-96
CollectBegin ==
    /\ pc = "start" /\ mode = "collect"
    /\ visited' = {}
    /\ stack' = <<[file |-> target, i |-> 1]>>
    /\ expanded' = [NoneExpanded EXCEPT ![target] = 1]
    /\ calls' = calls \cup {"collect_all_prerequisites"}
    /\ pc' = "dfs"
    /\ UNCHANGED <<dependencies, mode, target, requiredSet, plan, grouped, started,
                   completed, error, errUnits>>
    /\ UNCHANGED sortVars
    /\ UNCHANGED histVars

\* dfs, lines 90-94: one iteration of the for loop of the innermost call, or
\* its return when the loop is exhausted
DfsStepShallow ==
    /\ pc = "dfs" /\ stack # <<>>
    /\ LET n == Len(stack)
           top == stack[n]
           deps == Get(dependencies, top.file)
       IN IF top.i > Len(deps)
          THEN /\ stack' = SubSeq(stack, 1, n - 1)
               /\ UNCHANGED <<visited, expanded>>
          ELSE LET dep == deps[top.i]
                   advanced == [stack EXCEPT ![n].i = @ + 1]
               IN IF dep \notin visited
                  THEN /\ visited' = visited \cup {dep}
                       /\ stack' = advanced
                       /\ UNCHANGED expanded
                  ELSE /\ stack' = advanced
                       /\ UNCHANGED <<visited, expanded>>
    /\ UNCHANGED <<dependencies, mode, target, pc, requiredSet, plan, grouped, started,
                   completed, error, errUnits, calls>>
    /\ UNCHANGED sortVars
    /\ UNCHANGED histVars

DfsStep ==
    /\ pc = "dfs" /\ stack # <<>>
    /\ LET n == Len(stack)
           top == stack[n]
           deps == Get(dependencies, top.file)
       IN IF top.i > Len(deps)
          THEN /\ stack' = SubSeq(stack, 1, n - 1)
               /\ UNCHANGED <<visited, expanded>>
          ELSE LET dep == deps[top.i]
                   advanced == [stack EXCEPT ![n].i = @ + 1]
               IN IF dep \notin visited
                  THEN /\ visited' = visited \cup {dep}
                       /\ stack' = Append(advanced, [file |-> dep, i |-> 1])
                       /\ expanded' = [expanded EXCEPT ![dep] = @ + 1]
                  ELSE /\ stack' = advanced
                       /\ UNCHANGED <<visited, expanded>>
    /\ UNCHANGED <<dependencies, mode, target, pc, requiredSet, plan, grouped, started,
                   completed, error, errUnits, calls>>
    /\ UNCHANGED sortVars
    /\ UNCHANGED histVars

\* line 97, and in execution_order_for_target lines 113-115 followed by
\* run_single_file_with_deps lines 213-222
CollectReturn ==
    /\ pc = "dfs" /\ stack = <<>>
    /\ IF mode = "collect"
       THEN /\ pc' = "done"
            /\ UNCHANGED <<requiredSet, plan, grouped, calls>>
       ELSE LET prereqs == visited
                restricted == Restrict(order, prereqs \cup {target})
            IN /\ requiredSet' = prereqs \cup {target}
               /\ plan' = restricted
               /\ grouped' = group_by_dependency_count(restricted, dependencies)
               /\ calls' = calls \cup {"group_by_dependency_count"}
               /\ pc' = "exec"
    /\ UNCHANGED <<dependencies, mode, target, visited, stack, expanded, started,
                   completed, error, errUnits>>
    /\ UNCHANGED sortVars
    /\ UNCHANGED histVars

\* one iteration of the run loop (lines 195-196, 223-224) calling run_file
\* (lines 166-171); whether the file exists is the environment's choice
RunFileKeepGoing ==
    /\ pc = "exec" /\ Len(started) < Len(plan)
    /\ LET f == plan[Len(started) + 1]
       IN /\ started' = Append(started, f)
          /\ calls' = calls \cup {"run_file"}
          /\ \E exists \in BOOLEAN :
                IF exists
                THEN /\ completed' = Append(completed, f)
                     /\ UNCHANGED <<error, errUnits, pc>>
                ELSE /\ error' = "FileNotFound"
                     /\ errUnits' = {f}
                     /\ UNCHANGED <<completed, pc>>
    /\ UNCHANGED <<dependencies, mode, target, visited, stack, expanded, requiredSet, plan, grouped>>
    /\ UNCHANGED sortVars
    /\ UNCHANGED histVars

RunFile ==
    /\ pc = "exec" /\ Len(started) < Len(plan)
    /\ LET f == plan[Len(started) + 1]
       IN /\ started' = Append(started, f)
          /\ calls' = calls \cup {"run_file"}
          /\ \E exists \in BOOLEAN :
                IF exists
                THEN /\ completed' = Append(completed, f)
                     /\ UNCHANGED <<error, errUnits, pc>>
                ELSE /\ error' = "FileNotFound"
                     /\ errUnits' = {f}
                     /\ pc' = "failed"
                     /\ UNCHANGED completed
    /\ UNCHANGED <<dependencies, mode, target, visited, stack, expanded, requiredSet, plan, grouped>>
    /\ UNCHANGED sortVars
    /\ UNCHANGED histVars

\* the run loop is exhausted and the entry point returns
RunDoneEarly ==
    /\ pc = "exec" /\ (Len(started) = Len(plan) \/ Len(started) >= 1)
    /\ pc' = "done"
    /\ UNCHANGED <<dependencies, mode, target, visited, stack, expanded, requiredSet,
                   plan, grouped, started, completed, error, errUnits, calls>>
    /\ UNCHANGED sortVars
    /\ UNCHANGED histVars

RunDone ==
    /\ pc = "exec" /\ Len(started) = Len(plan)
    /\ pc' = "done"
    /\ UNCHANGED <<dependencies, mode, target, visited, stack, expanded, requiredSet, plan, grouped,
                   started, completed, error, errUnits, calls>>
    /\ UNCHANGED sortVars
    /\ UNCHANGED histVars

\* topological_sort was called in this invocation and returned its order
SortReturned == "topological_sort" \in calls /\ pc # "kahn" /\ error # "Cycle"

\* The graph of a map: its units and its prerequisite edges <<P, U>>.
GraphOf(d) ==
    <<AllFiles(d),
      UNION {{<<d[i].deps[j], d[i].name>> : j \in 1..Len(d[i].deps)} : i \in 1..Len(d)}>>

\* run_all_files is invoked again on a document whose records are the same
\* but may come in another order (lines 230-233 and load_dependencies,
\* lines 25-34)
Again ==
    /\ pc \in {"done", "failed"} /\ run < MaxRuns
    /\ mode = "run_all"
    /\ \E p \in Enumerations(1..Len(dependencies)) :
          dependencies' = [i \in 1..Len(dependencies) |-> dependencies[p[i]]]
    /\ run' = run + 1
    /\ lastOrder' = IF SortReturned THEN <<order>> ELSE <<>>
    /\ Reset
    /\ UNCHANGED <<mode, target>>

Next ==
    \/ RunAllBegin
    \/ RunSingleBegin
    \/ CollectBegin
    \/ KahnStep
    \/ KahnExit
    \/ DfsStep
    \/ CollectReturn
    \/ RunFile
    \/ RunDone
    \/ Again

Spec == Init /\ [][Next]_vars

\* One invocation, run to its end: the interpreter executes the single thread
\* step after step, so a step that can be taken is taken.
NextOnce ==
    \/ RunAllBegin
    \/ RunSingleBegin
    \/ CollectBegin
    \/ KahnStep
    \/ KahnExit
    \/ DfsStep
    \/ CollectReturn
    \/ RunFile
    \/ RunDone

Fairness ==
    /\ WF_vars(RunAllBegin)
    /\ WF_vars(RunSingleBegin)
    /\ WF_vars(CollectBegin)
    /\ WF_vars(KahnStep)
    /\ WF_vars(KahnExit)
    /\ WF_vars(DfsStep)
    /\ WF_vars(CollectReturn)
    /\ WF_vars(RunFile)
    /\ WF_vars(RunDone)

LiveSpec == Init /\ [][NextOnce]_vars /\ Fairness

\* topological_sort alone: only its while loop (lines 65-72) and the statements
\* after it (lines 74-78) are required to go on
KahnFairness ==
    /\ WF_vars(KahnStep)
    /\ WF_vars(KahnExit)

KahnSpec == Init /\ [][NextOnce]_vars /\ KahnFairness

----------------------------------------------------------------------------
\* The filter of line 115 on its own: any duplicate-free order and any
\* required set, filtered once and then once more with the same set.

InitPlan ==
    /\ dependencies = <<>>
    /\ mode = "plan"
    /\ target = "A"
    /\ pc = "start"
    /\ all_files = {}
    /\ graph = EmptyGraph
    /\ in_degree = <<>>
    /\ queue = <<>>
    /\ \E S \in SUBSET Units : order \in Enumerations(S)
    /\ visited = {}
    /\ stack = <<>>
    /\ expanded = NoneExpanded
    /\ requiredSet \in SUBSET Units
    /\ plan = <<>>
    /\ grouped = NoGroups
    /\ started = <<>>
    /\ completed = <<>>
    /\ error = "none"
    /\ errUnits = {}
    /\ calls = {}
    /\ run = 1
    /\ lastOrder = <<>>

\* line 115 applied to the global order
FilterOnce ==
    /\ pc = "start" /\ mode = "plan"
    /\ plan' = Restrict(order, requiredSet)
    /\ pc' = "filtered"
    /\ UNCHANGED <<dependencies, mode, target, visited, stack, expanded,
                   requiredSet, grouped, started, completed, error, errUnits, calls>>
    /\ UNCHANGED sortVars
    /\ UNCHANGED histVars

\* line 115 applied to its own result
FilterAgain ==
    /\ pc = "filtered" /\ mode = "plan"
    /\ plan' = Restrict(plan, requiredSet)
    /\ pc' = "refiltered"
    /\ UNCHANGED <<dependencies, mode, target, visited, stack, expanded,
                   requiredSet, grouped, started, completed, error, errUnits, calls>>
    /\ UNCHANGED sortVars
    /\ UNCHANGED histVars

NextPlan == FilterOnce \/ FilterAgain

SpecPlan == InitPlan /\ [][NextPlan]_vars

----------------------------------------------------------------------------
\* Notions the properties are stated in, defined on the map alone

\* the prerequisite edges <<P, U>>: U declares P
Edges(d) == GraphOf(d)[2]

DirectPrereqs(d, u) == {e[1] : e \in {x \in Edges(d) : x[2] = u}}

RECURSIVE Closure(_, _)
Closure(d, S) ==
    LET T == S \cup UNION {DirectPrereqs(d, x) : x \in S}
    IN IF T = S THEN S ELSE Closure(d, T)

\* the units reachable from u over one or more prerequisite edges
TransPrereqs(d, u) == Closure(d, DirectPrereqs(d, u))

Acyclic(d) == \A u \in AllFiles(d) : u \notin TransPrereqs(d, u)

NoDup(s) == \A i, j \in 1..Len(s) : i # j => s[i] # s[j]

\* topological_sort was called in this invocation and its loop has ended
SortEnded == "topological_sort" \in calls /\ pc # "kahn"

\* execution_order_for_target was called and has ended
PlanEnded == mode = "run_single" /\ pc \notin {"start", "kahn", "dfs"}

----------------------------------------------------------------------------
\* C1: for an acyclic map topological_sort returns an order that holds every
\* unit of the graph exactly once, and every prerequisite P of a unit U stands
\* at a smaller index than U.
C1_TopologicalOrder ==
    (SortEnded /\ Acyclic(dependencies)) =>
        /\ error # "Cycle"
        /\ Range(order) = AllFiles(dependencies)
        /\ NoDup(order)
        /\ \A i, j \in 1..Len(order) :
              <<order[i], order[j]>> \in Edges(dependencies) => i < j

C1_Witness ==
    /\ SortReturned
    /\ Acyclic(dependencies)
    /\ Len(order) = 3
    /\ Cardinality(Edges(dependencies)) >= 2

\* C2: for a map with a cycle (a unit listing itself included) topological_sort
\* raises the cycle error and hands no order, partial or complete, to its caller.
C2_CycleFails ==
    (SortEnded /\ ~Acyclic(dependencies)) =>
        /\ error = "Cycle"
        /\ pc = "failed"
        /\ plan = <<>>
        /\ started = <<>>
        /\ "collect_all_prerequisites" \notin calls

C2_Witness ==
    /\ error = "Cycle"
    /\ \E u \in Units : <<u, u>> \in Edges(dependencies)
    /\ order # <<>>

\* C3: the cycle error carries the set of offending units, which is the set of
\* units never dequeued when the queue became empty.
C3_CycleNamesUnits ==
    error = "Cycle" => errUnits = all_files \ Range(order)

\* C4: two invocations on the same graph return the same order, whatever the
\* enumeration order of the unit set and the insertion order of the entries.
C4_SameOrderAgain ==
    (SortReturned /\ lastOrder # <<>>) => order = lastOrder[1]

\* C5: for an acyclic map and a target of the unit set, execution_order_for_target
\* returns the target and its transitive prerequisites, each once and nothing
\* else, every direct prerequisite before its dependent and the target last.
C5_TargetOrder ==
    (PlanEnded /\ Acyclic(dependencies) /\ target \in AllFiles(dependencies)) =>
        /\ error \notin {"Cycle", "UnknownTarget"}
        /\ Range(plan) = {target} \cup TransPrereqs(dependencies, target)
        /\ NoDup(plan)
        /\ \A i \in 1..Len(plan) :
              DirectPrereqs(dependencies, plan[i]) \subseteq Range(SubSeq(plan, 1, i - 1))
        /\ plan[Len(plan)] = target

C5_Witness ==
    /\ PlanEnded
    /\ error = "none"
    /\ Len(plan) = 2
    /\ Cardinality(all_files) = 3
    /\ DirectPrereqs(dependencies, target) # {}

\* C6: for every map, cyclic ones included, the set collect_all_prerequisites
\* returns does not contain the target.
C6_TargetNotCollected ==
    ("collect_all_prerequisites" \in calls /\ pc # "dfs") => target \notin visited

\* C7: a target that is neither a key nor named in a dependency list fails with
\* the unknown-target error naming it, before topological_sort or
\* collect_all_prerequisites is called and before any unit runs.
C7_UnknownTarget ==
    (mode = "run_single" /\ pc # "start" /\ target \notin AllFiles(dependencies)) =>
        /\ error = "UnknownTarget"
        /\ errUnits = {target}
        /\ pc = "failed"
        /\ calls = {"execution_order_for_target"}
        /\ order = <<>> /\ visited = {} /\ plan = <<>>
        /\ started = <<>>

C7_Witness ==
    /\ error = "UnknownTarget"
    /\ ~Acyclic(dependencies)

\* C8: the runner calls run_file for the units of the order one after the other
\* in that order; once a call fails no later unit is invoked and the error names
\* the unit that failed.
C8_RunnerStopsAtFailure ==
    /\ started = SubSeq(plan, 1, Len(started))
    /\ completed = SubSeq(plan, 1, Len(completed))
    /\ IF error = "FileNotFound"
       THEN /\ Len(started) = Len(completed) + 1
            /\ errUnits = {started[Len(started)]}
       ELSE started = completed

C8_Witness ==
    /\ error = "FileNotFound"
    /\ Len(plan) >= 2
    /\ started = <<plan[1]>>

\* C9: in both modes a unit is started only when every direct prerequisite of it
\* has completed, so never after a prerequisite failed, and no unit is started twice.
C9_DependencySafety ==
    [][Len(started') = Len(started) + 1 =>
         LET U == started'[Len(started')]
         IN /\ DirectPrereqs(dependencies, U) \subseteq Range(completed)
            /\ U \notin Range(started)]_vars

C9_Witness ==
    /\ error = "FileNotFound"
    /\ Len(completed) >= 1
    /\ LET F == started[Len(started)]
       IN /\ DirectPrereqs(dependencies, F) # {}
          /\ \E U \in all_files : F \in DirectPrereqs(dependencies, U)

\* C10: group_by_dependency_count puts every unit of its list into exactly one
\* bucket by the number of prerequisites it declares (none, one, more; a unit
\* without an entry has none), the buckets keep the list's order and hold
\* nothing else, and the map is not changed.
GroupedList == IF mode = "run_all" THEN Keys(dependencies) ELSE plan

BucketOf(f) ==
    LET n == IF f \in Range(Keys(dependencies))
             THEN Len(dependencies[CHOOSE i \in 1..Len(dependencies) :
                                       dependencies[i].name = f].deps)
             ELSE 0
    IN IF n = 0 THEN 1 ELSE IF n = 1 THEN 2 ELSE 3

C10_Grouping ==
    /\ []("group_by_dependency_count" \in calls =>
            /\ DOMAIN grouped = 1..3
            /\ \A k \in 1..3 :
                  grouped[k] = SelectSeq(GroupedList, LAMBDA f : BucketOf(f) = k)
            /\ \A f \in Range(GroupedList) :
                  Cardinality({k \in 1..3 : f \in Range(grouped[k])}) = 1
            /\ Len(grouped[1]) + Len(grouped[2]) + Len(grouped[3]) = Len(GroupedList))
    /\ [][grouped' # grouped /\ run' = run => dependencies' = dependencies]_vars

C10_Witness ==
    /\ mode = "run_single"
    /\ "group_by_dependency_count" \in calls
    /\ \A k \in 1..3 : grouped[k] # <<>>
    /\ grouped[1][1] \notin Range(Keys(dependencies))

\* C11: filtering an order by a required set keeps the retained units in their
\* relative order, filtering the result again with the same set changes
\* nothing, and an empty required set gives the empty order.
PosIn(s, x) == CHOOSE i \in 1..Len(s) : s[i] = x

C11_FilterIdempotent ==
    /\ [](pc \in {"filtered", "refiltered"} =>
            /\ Range(plan) = Range(order) \cap requiredSet
            /\ Len(plan) = Cardinality(Range(order) \cap requiredSet)
            /\ \A i, j \in 1..Len(plan) :
                  i < j => PosIn(order, plan[i]) < PosIn(order, plan[j])
            /\ (requiredSet = {} => plan = <<>>))
    /\ [][pc = "filtered" /\ pc' = "refiltered" => plan' = plan]_vars

C11_Witness ==
    /\ pc = "refiltered"
    /\ Len(order) = 3
    /\ plan = <<"C", "A">>

C11_WitnessEmpty ==
    /\ pc = "refiltered"
    /\ Len(order) = 3
    /\ requiredSet = {}

\* C12: for every map and target, collect_all_prerequisites returns exactly the
\* units reachable from the target over one or more prerequisite edges.
C12_CollectsClosure ==
    ("collect_all_prerequisites" \in calls /\ pc # "dfs") =>
        visited = TransPrereqs(dependencies, target)

C12_Witness ==
    /\ mode = "collect"
    /\ pc = "done"
    /\ target \notin visited
    /\ visited \ DirectPrereqs(dependencies, target) # {}

\* C13: when planning fails (cycle, unknown target) the invocation ends before
\* the first execution: no unit is executed in such a run, in either mode.
C13_NoRunAfterPlanFailure ==
    /\ error \in {"Cycle", "UnknownTarget"} =>
          /\ pc = "failed"
          /\ started = <<>>
          /\ "run_file" \notin calls
    /\ started # <<>> =>
          /\ Acyclic(dependencies)
          /\ (mode = "run_single" => target \in AllFiles(dependencies))

C13_Witness ==
    /\ mode = "run_all"
    /\ error = "Cycle"
    /\ Len(order) = 1

\* C14: a unit named only in dependency lists is a unit of the graph without
\* prerequisites: a returned order holds it before every unit that lists it, and
\* as a target it is accepted, its restricted order being that unit alone.
ReferencedOnly(d) == (UNION {Range(d[i].deps) : i \in 1..Len(d)}) \ Range(Keys(d))

C14_ReferencedOnlyUnit ==
    /\ "topological_sort" \in calls =>
          \A u \in ReferencedOnly(dependencies) : u \in all_files /\ in_degree[u] = 0
    /\ SortReturned =>
          \A u \in ReferencedOnly(dependencies) :
             /\ u \in Range(order)
             /\ \A i, j \in 1..Len(order) :
                   (order[j] = u /\ u \in DirectPrereqs(dependencies, order[i])) => j < i
    /\ (PlanEnded /\ target \in ReferencedOnly(dependencies)) =>
          /\ error # "UnknownTarget"
          /\ Acyclic(dependencies) => (error # "Cycle" /\ plan = <<target>>)

C14_Witness ==
    /\ PlanEnded
    /\ target \in ReferencedOnly(dependencies)
    /\ plan = <<target>>
    /\ Cardinality(all_files) = 3
    /\ Len(dependencies) = 2

\* C17 as stated: whenever the map has a cycle anywhere,
\* execution_order_for_target fails with the cycle error.
C17_CycleErrorWhenever ==
    (PlanEnded /\ ~Acyclic(dependencies)) => error = "Cycle"

\* C17 as amended: for a target of the unit set a cycle anywhere in the map
\* gives the cycle error, also when the target and its prerequisites lie outside
\* the cycle; a target outside the unit set gives the unknown-target error
\* instead; a restricted order is returned only when the whole map is acyclic.
C17_CycleBlocksKnownTarget ==
    /\ (PlanEnded /\ ~Acyclic(dependencies)) =>
          /\ plan = <<>>
          /\ error = IF target \in AllFiles(dependencies) THEN "Cycle" ELSE "UnknownTarget"
    /\ (PlanEnded /\ error \notin {"Cycle", "UnknownTarget"}) => Acyclic(dependencies)

C17_Witness ==
    /\ PlanEnded
    /\ error = "Cycle"
    /\ \A u \in {target} \cup TransPrereqs(dependencies, target) :
          u \notin TransPrereqs(dependencies, u)
    /\ TransPrereqs(dependencies, target) # {}

\* C15: collect_all_prerequisites terminates on every map, each unit being
\* added to visited, and expanded by a dfs call, at most once.
C15_ExpandedAtMostOnce ==
    "collect_all_prerequisites" \in calls => \A u \in Units : expanded[u] <= 1

\* C16 as stated: with an acyclic map and no failing execution, an invocation
\* ends normally, run_all_files having executed every unit once and
\* run_single_file_with_deps the target and its transitive prerequisites once,
\* the target last.
Executed(S) == NoDup(completed) /\ Range(completed) = S

C16_CompletesWheneverAcyclic ==
    (/\ mode \in {"run_all", "run_single"}
     /\ pc \in {"done", "failed"}
     /\ error # "FileNotFound"
     /\ Acyclic(dependencies)) =>
        /\ pc = "done"
        /\ mode = "run_all" => Executed(AllFiles(dependencies))
        /\ mode = "run_single" =>
              /\ Executed({target} \cup TransPrereqs(dependencies, target))
              /\ completed[Len(completed)] = target

\* C16 as amended: the same, for run_single_file_with_deps provided the target
\* is a unit of the graph.
CanComplete ==
    /\ mode \in {"run_all", "run_single"}
    /\ mode = "run_single" => target \in AllFiles(dependencies)
    /\ Acyclic(dependencies)

C16_RunsToCompletion ==
    /\ []((pc \in {"done", "failed"} /\ error # "FileNotFound" /\ CanComplete) =>
            /\ pc = "done"
            /\ error = "none"
            /\ mode = "run_all" => Executed(AllFiles(dependencies))
            /\ mode = "run_single" =>
                  /\ Executed({target} \cup TransPrereqs(dependencies, target))
                  /\ completed[Len(completed)] = target)
    /\ ((pc = "start" /\ CanComplete) ~> (pc = "done" \/ error = "FileNotFound"))

C16_Witness ==
    /\ mode = "run_single"
    /\ pc = "done"
    /\ Len(completed) = 3

\* C18: in Kahn's loop, for every map (repeated prerequisites included), no
\* in-degree is negative, every unit is enqueued and dequeued at most once, a
\* unit is enqueued only when all its declared prerequisite entries have been
\* dequeued, and the loop ends with an empty queue.
Pending(f) ==
    LET deps == Get(dependencies, f)
    IN Cardinality({j \in 1..Len(deps) : deps[j] \notin Range(order)})

C18_KahnLoop ==
    /\ []("topological_sort" \in calls =>
            /\ \A f \in all_files : in_degree[f] >= 0 /\ in_degree[f] = Pending(f)
            /\ NoDup(order \o queue)
            /\ \A f \in Range(queue) : Pending(f) = 0
            /\ \A i \in 1..Len(order) :
                  Range(Get(dependencies, order[i])) \subseteq Range(SubSeq(order, 1, i - 1))
            /\ pc # "kahn" => queue = <<>>)
    /\ (pc = "kahn" ~> (pc # "kahn" /\ queue = <<>>))

C18_Witness ==
    /\ pc = "kahn"
    /\ \E i \in 1..Len(dependencies) :
          LET e == dependencies[i]
          IN /\ Len(e.deps) = 2
             /\ e.deps[1] = e.deps[2]
             /\ e.name \in Range(queue)
====
